---- MODULE Spec2Model ----
(***************************************************************************)
(* Model of the three snapshot migration tools:                            *)
(*   adjust_log_state.py           ("log")  resizes the digest array of    *)
(*                                          logEventState.db               *)
(*   adjust_tx_status.py           ("tx")   resizes the two u32 arrays of  *)
(*                                          snapshotTxStatusData           *)
(*   convert_tx_status_snapshot.py ("snap") the same conversion with a     *)
(*                                          positional command line        *)
(*                                                                         *)
(* File contents are kept run-length encoded: a sequence of runs           *)
(* [n |-> count, v |-> value], no run empty and no two neighbouring runs   *)
(* of the same value, so that two contents are equal exactly when their    *)
(* encodings are equal.  The event-state file is a sequence of bytes, the  *)
(* transaction-status file a sequence of native u32 words (4 bytes each).  *)
(***************************************************************************)
EXTENDS Integers, Sequences, FiniteSets, TLC

\* ------------------------------------------------------------------ bounds
\* non-zero array elements of the input files take the values 1..MaxVal
MaxVal == 1
\* the input file is up to MaxSlack units longer or shorter than the old layout
MaxSlack == 1

\* --------------------------------------------------------- program constants
NUMBER_OF_COMPUTORS == 676
TICKS_TO_KEEP_FROM_PRIOR_EPOCH == 100
SECONDS_PER_WEEK == 60 * 60 * 24 * 7
LOG_BUFFER_PAGE_SIZE == 300000000
PMAP_PAGE_SIZE == 480000000
IMAP_PAGE_SIZE == 164640000
DIGEST_SIZE == 32
K12_STATE_SIZE == 400
VARIABLES_SIZE == 32

\* ------------------------------------------------------- Python arithmetic
Min(a, b) == IF a < b THEN a ELSE b
Max(a, b) == IF a > b THEN a ELSE b

\* Python's a // b on integers: the floor of the quotient, for either sign
\* (b = 0 raises ZeroDivisionError and is guarded by the callers).
PyFloorDiv(a, b) ==
    IF b > 0 THEN (IF a >= 0 THEN a \div b ELSE -(((-a) + b - 1) \div b))
    ELSE (IF a <= 0 THEN (-a) \div (-b) ELSE -((a + (-b) - 1) \div (-b)))

\* ------------------------------------------------------ run-length contents
Run(n, v) == [n |-> n, v |-> v]

\* append one run, keeping the encoding normal
App(s, r) ==
    IF r.n <= 0 THEN s
    ELSE IF s # <<>> /\ s[Len(s)].v = r.v
         THEN [s EXCEPT ![Len(s)] = Run(s[Len(s)].n + r.n, r.v)]
         ELSE Append(s, r)

RECURSIVE Cat(_, _)
\* a + b on bytes objects or lists
Cat(s, t) == IF t = <<>> THEN s ELSE Cat(App(s, Head(t)), Tail(t))

RECURSIVE BLen(_)
\* len(x)
BLen(s) == IF s = <<>> THEN 0 ELSE Head(s).n + BLen(Tail(s))

\* b'\x00' * n and [0] * n (empty when n <= 0)
Zeros(n) == IF n <= 0 THEN <<>> ELSE <<Run(n, 0)>>

RECURSIVE Take(_, _)
\* the first k elements
Take(s, k) ==
    IF k <= 0 \/ s = <<>> THEN <<>>
    ELSE IF Head(s).n >= k THEN <<Run(k, Head(s).v)>>
         ELSE <<Head(s)>> \o Take(Tail(s), k - Head(s).n)

RECURSIVE Drop(_, _)
\* all but the first k elements
Drop(s, k) ==
    IF k <= 0 \/ s = <<>> THEN s
    ELSE IF Head(s).n > k THEN <<Run(Head(s).n - k, Head(s).v)>> \o Tail(s)
         ELSE Drop(Tail(s), k - Head(s).n)

\* a slice bound as Python normalises it: negative counts from the end,
\* and the result is clamped to 0..len
SliceIndex(i, len) == IF i < 0 THEN Max(i + len, 0) ELSE Min(i, len)

\* x[a:b]
PySlice(s, a, b) ==
    LET len == BLen(s)
        lo  == SliceIndex(a, len)
        hi  == SliceIndex(b, len)
    IN  IF hi <= lo THEN <<>> ELSE Take(Drop(s, lo), hi - lo)

\* x[a:]
PySliceFrom(s, a) == Drop(s, SliceIndex(a, BLen(s)))

\* x[:b]
PySliceTo(s, b) == Take(s, SliceIndex(b, BLen(s)))

\* any(x != 0 for x in s)
AnyNonZero(s) == \E i \in 1..Len(s) : s[i].v # 0

RECURSIVE Expand(_)
\* the plain sequence of elements (used on short slices only)
Expand(s) ==
    IF s = <<>> THEN <<>>
    ELSE <<Head(s).v>> \o Expand(IF Head(s).n = 1 THEN Tail(s)
                                 ELSE <<Run(Head(s).n - 1, Head(s).v)>> \o Tail(s))

RECURSIVE FromSeq(_)
\* the run-length encoding of a plain sequence
FromSeq(q) == IF q = <<>> THEN <<>> ELSE Cat(<<Run(1, Head(q))>>, FromSeq(Tail(q)))

\* element i (0-based) of a content, 0 <= i < len
ElemAt(s, i) == Head(Take(Drop(s, i), 1)).v

RECURSIVE PackLE(_, _)
\* struct.pack('<I', v) / struct.pack('<Q', v): k little-endian bytes
PackLE(v, k) == IF k = 0 THEN <<>> ELSE <<v % 256>> \o PackLE(v \div 256, k - 1)

RECURSIVE UnpackLE(_)
\* struct.unpack('<I', b)[0] on a plain byte sequence
UnpackLE(b) == IF b = <<>> THEN 0 ELSE Head(b) + 256 * UnpackLE(Tail(b))

\* ------------------------------------------------- the capacity formula
\* adjust_log_state.py: target_tick_duration_ms // 1000 is 0, so the next
\* integer division raises ZeroDivisionError
CalcLogRaises(ms) == PyFloorDiv(ms, 1000) = 0

\* adjust_log_state.py: integer arithmetic at every step (Python floors)
CalcLog(ms) ==
    LET target_tick_duration_seconds == PyFloorDiv(ms, 1000)
        ticks_per_week == PyFloorDiv(SECONDS_PER_WEEK, target_tick_duration_seconds)
    IN  PyFloorDiv(ticks_per_week + NUMBER_OF_COMPUTORS - 1, NUMBER_OF_COMPUTORS)
            * NUMBER_OF_COMPUTORS

\* adjust_tx_status.py, convert_tx_status_snapshot.py: ms / 1000 is 0.0
CalcTxRaises(ms) == ms = 0

\* adjust_tx_status.py, convert_tx_status_snapshot.py:
\* target_tick_duration_seconds = ms / 1000 is a float, the true quotient
\* ms/1000, and SECONDS_PER_WEEK // that float is the floor of
\* 604800 / (ms/1000) = 604800000 / ms.  (Every duration of this model is a
\* multiple of 125 ms, for which ms / 1000 is exact in binary64; the later
\* float operations are exact on integers of this size.)
CalcTx(ms) ==
    LET ticks_per_week == PyFloorDiv(SECONDS_PER_WEEK * 1000, ms)
    IN  PyFloorDiv(ticks_per_week + NUMBER_OF_COMPUTORS - 1, NUMBER_OF_COMPUTORS)
            * NUMBER_OF_COMPUTORS

\* the formula of public_settings.h quoted in the three docstrings, in C:
\* integer division (truncating) at every step; defined for ms >= 1000
MAX_NUMBER_OF_TICKS_PER_EPOCH(ms) ==
    (((SECONDS_PER_WEEK \div (ms \div 1000)) + NUMBER_OF_COMPUTORS - 1)
        \div NUMBER_OF_COMPUTORS) * NUMBER_OF_COMPUTORS

\* ------------------------------------------------------------- the state
VARIABLES
    tool,             \* which script runs: "log", "tx" or "snap"
    old_duration,     \* --old-duration
    new_duration,     \* --new-duration
    output,           \* --output: "none", "out" (another path), "in" (the input path)
    no_backup,        \* --no-backup
    fs,               \* the file system: path -> [exists, content]
    pc,               \* position of the run in main()
    old_max_ticks,    \* capacity computed for the old duration
    new_max_ticks,    \* capacity computed for the new duration
    data,             \* log: self.data, the bytes read
    new_data,         \* log: the buffer adjust_file() returns
    tickTxCounter,    \* tx: the counter array read
    tickTxIndexStart, \* tx: the index-start array read
    prevEpochBegin,   \* tx: confirmedTxPreviousEpochBeginTick read
    currEpochBegin,   \* tx: confirmedTxCurrentEpochBeginTick read
    gate,             \* the data-loss warning was printed and input() was called
    response,         \* the answer given to input(): "y", "n", or "" (not asked)
    verified,         \* verification of the new content has succeeded
    exit_status,      \* "running", "success" (status 0) or "failure" (status 1)
    error,            \* why the run failed, "none" otherwise
    orig,             \* history: the input file before the run
    writes,           \* history: [path, verified] for every file written
    earlier           \* history: the earlier runs of a round trip, oldest first

vars == <<tool, old_duration, new_duration, output, no_backup, fs, pc,
          old_max_ticks, new_max_ticks, data, new_data, tickTxCounter,
          tickTxIndexStart, prevEpochBegin, currEpochBegin, gate, response,
          verified, exit_status, error, orig, writes, earlier>>

Paths == {"in", "out", "backup", "tmp"}
NoFile == [exists |-> FALSE, content |-> <<>>]
File(c) == [exists |-> TRUE, content |-> c]

\* the durations given on the command line (ms); multiples of 125
Durations == {-1000, 0, 500, 1000, 1500, 2000, 3000}

\* the node that wrote the input file ran with the old duration when that is
\* a duration a node can be built with, and with 3000 ms otherwise
FileDuration(od) == IF od >= 1000 THEN od ELSE 3000

\* indices at which the input array may hold a non-zero element: both ends
\* and both sides of the cut a conversion to newCap makes
CutPositions(fileCap, newCap) ==
    {p \in {0, newCap - 1, newCap, fileCap - 1} : p >= 0 /\ p < fileCap}

\* an array of cap elements, zero but for val at pos (pos = -1: all zero)
ArrayWith(cap, pos, val) ==
    IF pos < 0 \/ pos >= cap THEN Zeros(cap)
    ELSE Cat(Cat(Zeros(pos), <<Run(1, val)>>), Zeros(cap - pos - 1))

\* content lengthened by delta zero elements (delta > 0) or cut by -delta
Resized(c, delta) ==
    IF delta >= 0 THEN Cat(c, Zeros(delta)) ELSE Take(c, BLen(c) + delta)

\* ---------------------------------------------------------- input files
\* the offset of the digest array: three virtual-memory dumps, each followed
\* by currentId and currentPageId (16 bytes)
DigestsStart ==
    (LOG_BUFFER_PAGE_SIZE + 16) + (PMAP_PAGE_SIZE + 16) + (IMAP_PAGE_SIZE + 16)

\* (tickBegin, lastUpdatedTick) of the input event-state files
TickPairs == {<<0, 0>>, <<10, 5>>, <<100, 250099>>, <<0, 1048575>>}

\* the 32 bytes of scalar fields: logBufferTail, logId (u64), tickBegin,
\* lastUpdatedTick, currentTxId, currentTick (u32), little-endian
VariablesBytes(tp) ==
    FromSeq(PackLE(4660, 8) \o PackLE(22136, 8) \o PackLE(tp[1], 4)
            \o PackLE(tp[2], 4) \o PackLE(7, 4) \o PackLE(43981, 4))

\* an event-state file as a node with capacity cap writes it, its opaque K12
\* block k12len bytes long, one digest byte (at nzpos) holding val
LogFileContent(cap, k12len, nzpos, val, tp) ==
    LET head     == Cat(Cat(<<Run(1, 17)>>, Zeros(DigestsStart - 2)), <<Run(1, 34)>>)
        digests  == ArrayWith(cap * DIGEST_SIZE, nzpos, val)
        k12      == Cat(<<Run(k12len - 1, 51)>>, <<Run(1, 68)>>)
    IN  Cat(Cat(Cat(head, digests), k12), VariablesBytes(tp))

LogInputFiles(od, nd) ==
    LET cap    == MAX_NUMBER_OF_TICKS_PER_EPOCH(FileDuration(od))
        newCap == IF CalcLogRaises(nd) THEN cap ELSE CalcLog(nd)
    IN  {NoFile} \cup
        {File(LogFileContent(cap, K12_STATE_SIZE + 8 * slack, nzpos, val, tp)) :
            slack \in (-MaxSlack)..MaxSlack,
            nzpos \in {-1} \cup CutPositions(cap * DIGEST_SIZE, newCap * DIGEST_SIZE),
            val \in 1..MaxVal,
            tp \in TickPairs}

\* (prevEpochBeginTick, currEpochBeginTick) of the input transaction-status files
EpochPairs == {<<5, 10>>, <<70000, 3>>}

\* a transaction-status file as a node with capacity cap writes it, in u32
\* words: counters, index starts, two scalars; one element of one array
\* (which = 1: counters, 2: index starts) holds val
TxFileContent(cap, which, nzpos, val, ep) ==
    LET asz == cap + TICKS_TO_KEEP_FROM_PRIOR_EPOCH
    IN  Cat(Cat(Cat(ArrayWith(asz, IF which = 1 THEN nzpos ELSE -1, val),
                    ArrayWith(asz, IF which = 2 THEN nzpos ELSE -1, val)),
                <<Run(1, ep[1])>>), <<Run(1, ep[2])>>)

\* the transaction-status files of capacity cap given to a conversion to nd
TxFilesOfCapacity(cap, nd) ==
    LET asz    == cap + TICKS_TO_KEEP_FROM_PRIOR_EPOCH
        newAsz == IF CalcTxRaises(nd) THEN asz
                  ELSE CalcTx(nd) + TICKS_TO_KEEP_FROM_PRIOR_EPOCH
    IN  {File(Resized(TxFileContent(cap, w[1], w[2], val, ep), slack)) :
            slack \in (-MaxSlack)..MaxSlack,
            w \in {<<1, -1>>} \cup ({1, 2} \X CutPositions(asz, newAsz)),
            val \in 1..MaxVal,
            ep \in EpochPairs}

\* the input is absent, or has the capacity of the node that wrote it, or the
\* capacity read_tx_status_data expects for the old duration
TxInputFiles(od, nd) ==
    {NoFile}
    \cup TxFilesOfCapacity(MAX_NUMBER_OF_TICKS_PER_EPOCH(FileDuration(od)), nd)
    \cup (IF od > 0 THEN TxFilesOfCapacity(CalcTx(od), nd) ELSE {})

Tools == {"log", "tx", "snap"}

InputFiles(t, od, nd) ==
    IF t = "log" THEN LogInputFiles(od, nd) ELSE TxInputFiles(od, nd)

\* convert_tx_status_snapshot.py always names an output file and makes no backup
Outputs(t) == IF t = "snap" THEN {"out", "in"} ELSE {"none", "out", "in"}
NoBackups(t) == IF t = "snap" THEN {TRUE} ELSE BOOLEAN

Init ==
    \E t \in Tools, od \in Durations, nd \in Durations :
      \E o \in Outputs(t), nb \in NoBackups(t), f \in InputFiles(t, od, nd) :
        /\ tool = t
        /\ old_duration = od
        /\ new_duration = nd
        /\ output = o
        /\ no_backup = nb
        /\ fs = [p \in Paths |-> IF p = "in" THEN f ELSE NoFile]
        /\ pc = "start"
        /\ old_max_ticks = 0
        /\ new_max_ticks = 0
        /\ data = <<>>
        /\ new_data = <<>>
        /\ tickTxCounter = <<>>
        /\ tickTxIndexStart = <<>>
        /\ prevEpochBegin = 0
        /\ currEpochBegin = 0
        /\ gate = FALSE
        /\ response = ""
        /\ verified = FALSE
        /\ exit_status = "running"
        /\ error = "none"
        /\ orig = f
        /\ writes = {}
        /\ earlier = <<>>

\* ------------------------------------------------------ adjust_log_state.py
argsVars == <<tool, old_duration, new_duration, output, no_backup, orig, earlier>>
txVars == <<tickTxCounter, tickTxIndexStart, prevEpochBegin, currEpochBegin>>

\* the path --output names
OutputPath == IF output = "in" THEN "in" ELSE "out"

\* main(), lines 307-312: the equal-durations return, then the constructor,
\* which computes both capacities outside the try block
LogStart ==
    /\ tool = "log" /\ pc = "start"
    /\ IF old_duration = new_duration
       THEN /\ pc' = "done" /\ exit_status' = "success"
            /\ UNCHANGED <<old_max_ticks, new_max_ticks, error>>
       ELSE IF CalcLogRaises(old_duration) \/ CalcLogRaises(new_duration)
       THEN /\ pc' = "done" /\ exit_status' = "failure"
            /\ error' = "UnhandledZeroDivisionError"
            /\ UNCHANGED <<old_max_ticks, new_max_ticks>>
       ELSE /\ old_max_ticks' = CalcLog(old_duration)
            /\ new_max_ticks' = CalcLog(new_duration)
            /\ pc' = "read"
            /\ UNCHANGED <<exit_status, error>>
    /\ UNCHANGED <<argsVars, txVars, fs, data, new_data, gate, response,
                   verified, writes>>

\* read_file()
LogRead ==
    /\ tool = "log" /\ pc = "read"
    /\ IF ~fs["in"].exists
       THEN /\ pc' = "done" /\ exit_status' = "failure"
            /\ error' = "FileNotFoundError"
            /\ UNCHANGED data
       ELSE /\ data' = fs["in"].content
            /\ pc' = "backup"
            /\ UNCHANGED <<exit_status, error>>
    /\ UNCHANGED <<argsVars, txVars, fs, old_max_ticks, new_max_ticks, new_data,
                   gate, response, verified, writes>>

\* mutant of LogBackup: the copy is never made
LogBackup_NoCopy ==
    /\ tool = "log" /\ pc = "backup"
    /\ pc' = "adjust"
    /\ UNCHANGED <<argsVars, txVars, fs, writes, old_max_ticks, new_max_ticks,
                   data, new_data, gate, response, verified, exit_status, error>>

\* main(), lines 319-320, and backup_file()
LogBackup ==
    /\ tool = "log" /\ pc = "backup"
    /\ IF ~no_backup /\ output = "none"
       THEN /\ fs' = [fs EXCEPT !["backup"] = fs["in"]]
            /\ writes' = writes \cup {[path |-> "backup", verified |-> verified]}
       ELSE UNCHANGED <<fs, writes>>
    /\ pc' = "adjust"
    /\ UNCHANGED <<argsVars, txVars, old_max_ticks, new_max_ticks, data, new_data,
                   gate, response, verified, exit_status, error>>

\* calculate_offsets()
Offsets ==
    LET old_digests_size == old_max_ticks * DIGEST_SIZE
        k12_start        == DigestsStart + old_digests_size
    IN  [digests_start    |-> DigestsStart,
         old_digests_size |-> old_digests_size,
         new_digests_size |-> new_max_ticks * DIGEST_SIZE,
         k12_start        |-> k12_start,
         variables_start  |-> k12_start + K12_STATE_SIZE,
         file_end         |-> k12_start + K12_STATE_SIZE + VARIABLES_SIZE]

\* adjust_file(), lines 126-128: the three sections sliced out of self.data
DigestsData ==
    PySlice(data, Offsets.digests_start, Offsets.digests_start + Offsets.old_digests_size)
K12Data == PySlice(data, Offsets.k12_start, Offsets.k12_start + K12_STATE_SIZE)
VariablesData ==
    PySlice(data, Offsets.variables_start, Offsets.variables_start + VARIABLES_SIZE)

\* adjust_file(), lines 131-136: every struct.unpack gets a slice of the 32
\* bytes; the last one, [28:32], is short whenever fewer than 32 were read
UnpackRaises(variables_data) == BLen(variables_data) < VARIABLES_SIZE

\* struct.unpack('<I', variables_data[a:b])[0]
UnpackU32(variables_data, a, b) == UnpackLE(Expand(PySlice(variables_data, a, b)))

\* adjust_file(), line 147
TicksUsed ==
    LET tick_begin        == UnpackU32(VariablesData, 16, 20)
        last_updated_tick == UnpackU32(VariablesData, 20, 24)
    IN  IF last_updated_tick >= tick_begin
        THEN last_updated_tick - tick_begin + 1 ELSE 0

\* adjust_file(), line 150: the warning and the prompt
LogGate == TicksUsed > new_max_ticks

\* mutant of ResizedDigests: a shrink that keeps the last bytes, not the first
ResizedDigests_KeepsTail ==
    IF Offsets.new_digests_size > Offsets.old_digests_size
    THEN Cat(DigestsData, Zeros(Offsets.new_digests_size - Offsets.old_digests_size))
    ELSE PySliceFrom(DigestsData, Offsets.old_digests_size - Offsets.new_digests_size)

\* adjust_file(), lines 164-173: the resized digest array
ResizedDigests ==
    IF Offsets.new_digests_size > Offsets.old_digests_size
    THEN Cat(DigestsData, Zeros(Offsets.new_digests_size - Offsets.old_digests_size))
    ELSE PySliceTo(DigestsData, Offsets.new_digests_size)

\* mutant of AdjustedData: the K12 state is left out of the buffer
AdjustedData_NoK12 ==
    Cat(Cat(PySlice(data, 0, Offsets.digests_start), ResizedDigests), VariablesData)

\* adjust_file(), lines 159-181: the buffer returned
AdjustedData ==
    Cat(Cat(Cat(PySlice(data, 0, Offsets.digests_start), ResizedDigests),
            K12Data), VariablesData)

\* adjust_file(): struct.error is caught by main's except Exception; the
\* prompt's sys.exit(1) is a SystemExit and ends the run
LogAdjust ==
    /\ tool = "log" /\ pc = "adjust"
    /\ IF UnpackRaises(VariablesData)
       THEN /\ pc' = "done" /\ exit_status' = "failure" /\ error' = "StructError"
            /\ UNCHANGED <<new_data, gate, response>>
       ELSE \E r \in IF LogGate THEN {"y", "n"} ELSE {""} :
            /\ gate' = LogGate
            /\ response' = r
            /\ IF LogGate /\ r # "y"
               THEN /\ pc' = "done" /\ exit_status' = "failure"
                    /\ error' = "Aborted"
                    /\ UNCHANGED new_data
               ELSE /\ new_data' = AdjustedData
                    /\ pc' = "verify"
                    /\ UNCHANGED <<exit_status, error>>
    /\ UNCHANGED <<argsVars, txVars, fs, old_max_ticks, new_max_ticks, data,
                   verified, writes>>

\* verify_adjustment(), lines 198-204: the size recomputed from the new layout
ExpectedNewSize ==
    (LOG_BUFFER_PAGE_SIZE + 16) + (PMAP_PAGE_SIZE + 16) + (IMAP_PAGE_SIZE + 16)
    + new_max_ticks * DIGEST_SIZE + K12_STATE_SIZE + VARIABLES_SIZE

\* verify_adjustment(), lines 211-215: the variables re-read at the end of
\* the buffer; unpacking [8:16] and [28:32] raises on a short slice
VerifyRaises(buf) ==
    LET var_offset      == BLen(buf) - VARIABLES_SIZE
        variables_check == PySlice(buf, var_offset, var_offset + VARIABLES_SIZE)
    IN  BLen(PySlice(variables_check, 8, 16)) < 8
        \/ BLen(PySlice(variables_check, 28, 32)) < 4

\* mutant of VerifyAdjustment: a buffer longer than expected is accepted
VerifyAdjustment_AtLeast(buf) == ExpectedNewSize <= BLen(buf)

\* verify_adjustment(), line 221
VerifyAdjustment(buf) == ExpectedNewSize = BLen(buf)

\* main(), lines 326-336
LogVerify ==
    /\ tool = "log" /\ pc = "verify"
    /\ IF VerifyRaises(new_data)
       THEN /\ pc' = "done" /\ exit_status' = "failure" /\ error' = "StructError"
            /\ UNCHANGED verified
       ELSE IF VerifyAdjustment(new_data)
       THEN /\ verified' = TRUE /\ pc' = "write"
            /\ UNCHANGED <<exit_status, error>>
       ELSE /\ pc' = "done" /\ exit_status' = "failure"
            /\ error' = "VerificationFailed"
            /\ UNCHANGED verified
    /\ UNCHANGED <<argsVars, txVars, fs, old_max_ticks, new_max_ticks, data,
                   new_data, gate, response, writes>>

\* write_file(new_data, args.output)
LogWrite ==
    /\ tool = "log" /\ pc = "write"
    /\ LET output_path == IF output = "none" THEN "in" ELSE OutputPath
       IN  /\ fs' = [fs EXCEPT ![output_path] = File(new_data)]
           /\ writes' = writes \cup {[path |-> output_path, verified |-> verified]}
    /\ pc' = "done" /\ exit_status' = "success"
    /\ UNCHANGED <<argsVars, txVars, old_max_ticks, new_max_ticks, data, new_data,
                   gate, response, verified, error>>

\* ------------------------- adjust_tx_status.py, convert_tx_status_snapshot.py
\* adjust_tx_status.py main(), lines 248-254
TxStart ==
    /\ tool = "tx" /\ pc = "start"
    /\ IF old_duration = new_duration
       THEN /\ pc' = "done" /\ exit_status' = "success" /\ UNCHANGED error
       ELSE IF old_duration <= 0 \/ new_duration <= 0
       THEN /\ pc' = "done" /\ exit_status' = "failure"
            /\ error' = "InvalidParameter"
       ELSE /\ pc' = "backup" /\ UNCHANGED <<exit_status, error>>
    /\ UNCHANGED <<argsVars, txVars, fs, old_max_ticks, new_max_ticks, data,
                   new_data, gate, response, verified, writes>>

\* convert_tx_status_snapshot.py main(), lines 205-212
SnapStart ==
    /\ tool = "snap" /\ pc = "start"
    /\ IF old_duration <= 0 \/ new_duration <= 0
       THEN /\ pc' = "done" /\ exit_status' = "failure"
            /\ error' = "InvalidParameter"
       ELSE IF OutputPath = "in"
       THEN /\ pc' = "done" /\ exit_status' = "failure"
            /\ error' = "SameInputOutput"
       ELSE /\ pc' = "convert" /\ UNCHANGED <<exit_status, error>>
    /\ UNCHANGED <<argsVars, txVars, fs, old_max_ticks, new_max_ticks, data,
                   new_data, gate, response, verified, writes>>

\* adjust_tx_status.py main(), lines 257-261: shutil.copy2 outside any try
TxBackup ==
    /\ tool = "tx" /\ pc = "backup"
    /\ IF ~no_backup /\ output = "none"
       THEN IF ~fs["in"].exists
            THEN /\ pc' = "done" /\ exit_status' = "failure"
                 /\ error' = "UnhandledFileNotFoundError"
                 /\ UNCHANGED <<fs, writes>>
            ELSE /\ fs' = [fs EXCEPT !["backup"] = fs["in"]]
                 /\ writes' = writes \cup {[path |-> "backup", verified |-> verified]}
                 /\ pc' = "convert"
                 /\ UNCHANGED <<exit_status, error>>
       ELSE /\ pc' = "convert"
            /\ UNCHANGED <<fs, writes, exit_status, error>>
    /\ UNCHANGED <<argsVars, txVars, old_max_ticks, new_max_ticks, data, new_data,
                   gate, response, verified>>

\* the output_file main() passes to convert_tx_status
OutputFile == IF tool = "tx" /\ output = "none" THEN "tmp" ELSE OutputPath

\* mutant of ReadTxError: a file longer than expected is accepted
ReadTxError_Tolerant(f, max_ticks_per_epoch) ==
    LET array_size    == max_ticks_per_epoch + TICKS_TO_KEEP_FROM_PRIOR_EPOCH
        expected_size == array_size * 4 * 2 + 8
    IN  IF ~f.exists THEN "FileNotFoundError"
        ELSE IF 4 * BLen(f.content) < expected_size THEN "ValueError"
        ELSE "none"

\* read_tx_status_data(), lines 43-55: the exception raised, "none" if none
\* (the file is counted in u32 words, 4 bytes each)
ReadTxError(f, max_ticks_per_epoch) ==
    LET array_size    == max_ticks_per_epoch + TICKS_TO_KEEP_FROM_PRIOR_EPOCH
        expected_size == array_size * 4 * 2 + 8
    IN  IF ~f.exists THEN "FileNotFoundError"
        ELSE IF 4 * BLen(f.content) # expected_size THEN "ValueError"
        ELSE "none"

\* read_tx_status_data(), lines 57-69: the four values returned
ReadTxData(f, max_ticks_per_epoch) ==
    LET array_size == max_ticks_per_epoch + TICKS_TO_KEEP_FROM_PRIOR_EPOCH
    IN  [tickTxCounter    |-> PySlice(f.content, 0, array_size),
         tickTxIndexStart |-> PySlice(f.content, array_size, 2 * array_size),
         prevEpochBegin   |-> ElemAt(f.content, 2 * array_size),
         currEpochBegin   |-> ElemAt(f.content, 2 * array_size + 1)]

\* convert_tx_status(), lines 121-163
ConvertRead ==
    /\ tool \in {"tx", "snap"} /\ pc = "convert"
    /\ IF CalcTxRaises(old_duration) \/ CalcTxRaises(new_duration)
       THEN /\ pc' = "done" /\ exit_status' = "failure"
            /\ error' = "UnhandledZeroDivisionError"
            /\ UNCHANGED <<old_max_ticks, new_max_ticks, txVars>>
       ELSE /\ old_max_ticks' = CalcTx(old_duration)
            /\ new_max_ticks' = CalcTx(new_duration)
            /\ LET err == ReadTxError(fs["in"], CalcTx(old_duration))
                   d   == ReadTxData(fs["in"], CalcTx(old_duration))
               IN  IF err # "none"
                   THEN /\ pc' = "done" /\ exit_status' = "failure"
                        /\ error' = err
                        /\ UNCHANGED txVars
                   ELSE /\ tickTxCounter' = d.tickTxCounter
                        /\ tickTxIndexStart' = d.tickTxIndexStart
                        /\ prevEpochBegin' = d.prevEpochBegin
                        /\ currEpochBegin' = d.currEpochBegin
                        /\ pc' = "write"
                        /\ UNCHANGED <<exit_status, error>>
    /\ UNCHANGED <<argsVars, fs, data, new_data, gate, response, verified, writes>>

\* write_tx_status_data(), line 79
NewArraySize == new_max_ticks + TICKS_TO_KEEP_FROM_PRIOR_EPOCH

\* mutant of TxGate: only the counter array is scanned
TxGate_CounterOnly ==
    /\ BLen(tickTxCounter) > NewArraySize
    /\ AnyNonZero(PySliceFrom(tickTxCounter, NewArraySize))

\* write_tx_status_data(), line 92: non-zero data in the truncated region
TxGate ==
    /\ BLen(tickTxCounter) > NewArraySize
    /\ \/ AnyNonZero(PySliceFrom(tickTxCounter, NewArraySize))
       \/ AnyNonZero(PySliceFrom(tickTxIndexStart, NewArraySize))

\* write_tx_status_data(), lines 82-99: one array after the adjustment,
\* which is decided on the length of tickTxCounter for both arrays
ResizedArray(a) ==
    IF BLen(tickTxCounter) < NewArraySize
    THEN Cat(a, Zeros(NewArraySize - BLen(a)))
    ELSE IF BLen(tickTxCounter) > NewArraySize
    THEN PySliceTo(a, NewArraySize)
    ELSE a

\* write_tx_status_data(), lines 101-110: what the file holds when the with
\* block is left; struct.pack raises on an array of another length, after
\* open(file_path, 'wb') has created or emptied the file
PackRaises == BLen(ResizedArray(tickTxCounter)) # NewArraySize
              \/ BLen(ResizedArray(tickTxIndexStart)) # NewArraySize

WrittenContent ==
    IF BLen(ResizedArray(tickTxCounter)) # NewArraySize THEN <<>>
    ELSE IF BLen(ResizedArray(tickTxIndexStart)) # NewArraySize
    THEN ResizedArray(tickTxCounter)
    ELSE Cat(Cat(Cat(ResizedArray(tickTxCounter), ResizedArray(tickTxIndexStart)),
                 <<Run(1, prevEpochBegin)>>), <<Run(1, currEpochBegin)>>)

\* convert_tx_status(), line 168: write_tx_status_data(output_file, ...)
ConvertWrite ==
    /\ tool \in {"tx", "snap"} /\ pc = "write"
    /\ \E r \in IF TxGate THEN {"y", "n"} ELSE {""} :
        /\ gate' = TxGate
        /\ response' = r
        /\ IF TxGate /\ r # "y"
           THEN /\ pc' = "done" /\ exit_status' = "failure" /\ error' = "Aborted"
                /\ UNCHANGED <<fs, writes>>
           ELSE /\ fs' = [fs EXCEPT ![OutputFile] = File(WrittenContent)]
                /\ writes' = writes \cup {[path |-> OutputFile, verified |-> verified]}
                /\ IF PackRaises
                   THEN /\ pc' = "done" /\ exit_status' = "failure"
                        /\ error' = "UnhandledStructError"
                   ELSE /\ pc' = "verify" /\ UNCHANGED <<exit_status, error>>
    /\ UNCHANGED <<argsVars, txVars, old_max_ticks, new_max_ticks, data, new_data,
                   verified>>

\* convert_tx_status(), lines 178-183: the output file read back, and the
\* return to main(), which has a temp file to move in in-place mode
ConvertVerify ==
    /\ tool \in {"tx", "snap"} /\ pc = "verify"
    /\ IF ReadTxError(fs[OutputFile], new_max_ticks) # "none"
       THEN /\ pc' = "done" /\ exit_status' = "failure"
            /\ error' = "VerificationFailed"
            /\ UNCHANGED verified
       ELSE /\ verified' = TRUE
            /\ IF OutputFile = "tmp"
               THEN pc' = "move" /\ UNCHANGED exit_status
               ELSE pc' = "done" /\ exit_status' = "success"
            /\ UNCHANGED error
    /\ UNCHANGED <<argsVars, txVars, fs, old_max_ticks, new_max_ticks, data,
                   new_data, gate, response, writes>>

\* adjust_tx_status.py main(), line 272: shutil.move(temp_file, args.filepath)
TxMove ==
    /\ tool = "tx" /\ pc = "move"
    /\ fs' = [fs EXCEPT !["in"] = fs["tmp"], !["tmp"] = NoFile]
    /\ writes' = writes \cup {[path |-> "in", verified |-> verified]}
    /\ pc' = "done" /\ exit_status' = "success"
    /\ UNCHANGED <<argsVars, txVars, old_max_ticks, new_max_ticks, data, new_data,
                   gate, response, verified, error>>

\* ------------------------------------------------------- the specification
Next ==
    \/ LogStart
    \/ LogRead
    \/ LogBackup
    \/ LogAdjust
    \/ LogVerify
    \/ LogWrite
    \/ TxStart
    \/ SnapStart
    \/ TxBackup
    \/ ConvertRead
    \/ ConvertWrite
    \/ ConvertVerify
    \/ TxMove

Spec == Init /\ [][Next]_vars

\* specification for verify_adjustment() on buffers with an injected fault:
\* a run of adjust_log_state.py that has read its input and made its backup,
\* and whose adjust_file() returns a buffer in which the length of one
\* segment is off by up to MaxSlack bytes
FaultyAdjustedData(dh, dd, dk) ==
    Cat(Cat(Cat(PySlice(data, 0, Offsets.digests_start + dh),
                Resized(ResizedDigests, dd)),
            Resized(K12Data, dk)), VariablesData)

Faults ==
    {<<0, 0, 0>>} \cup
    UNION {{<<d, 0, 0>>, <<0, d, 0>>, <<0, 0, d>>} :
              d \in ((-MaxSlack)..MaxSlack) \ {0}}

InitVerify ==
    \E od \in Durations, nd \in Durations :
      \E o \in Outputs("log"), nb \in NoBackups("log"),
         nzpos \in {-1, 0}, tp \in {<<0, 0>>, <<10, 5>>} :
        LET f == File(LogFileContent(MAX_NUMBER_OF_TICKS_PER_EPOCH(FileDuration(od)),
                                     K12_STATE_SIZE, nzpos, 1, tp))
        IN  /\ od # nd /\ ~CalcLogRaises(od) /\ ~CalcLogRaises(nd)
            /\ tool = "log"
            /\ old_duration = od
            /\ new_duration = nd
            /\ output = o
            /\ no_backup = nb
            /\ fs = [p \in Paths |->
                        IF p = "in" \/ (p = "backup" /\ ~nb /\ o = "none")
                        THEN f ELSE NoFile]
            /\ pc = "adjust"
            /\ old_max_ticks = CalcLog(od)
            /\ new_max_ticks = CalcLog(nd)
            /\ data = f.content
            /\ new_data = <<>>
            /\ tickTxCounter = <<>>
            /\ tickTxIndexStart = <<>>
            /\ prevEpochBegin = 0
            /\ currEpochBegin = 0
            /\ gate = FALSE
            /\ response = ""
            /\ verified = FALSE
            /\ exit_status = "running"
            /\ error = "none"
            /\ orig = f
            /\ writes = IF ~nb /\ o = "none"
                        THEN {[path |-> "backup", verified |-> FALSE]} ELSE {}
            /\ earlier = <<>>

\* adjust_file() with the fault injected into the buffer it returns
LogAdjustFaulty ==
    /\ tool = "log" /\ pc = "adjust"
    /\ \E ft \in Faults : new_data' = FaultyAdjustedData(ft[1], ft[2], ft[3])
    /\ pc' = "verify"
    /\ UNCHANGED <<argsVars, txVars, fs, old_max_ticks, new_max_ticks, data,
                   gate, response, verified, exit_status, error, writes>>

NextVerify ==
    \/ LogAdjustFaulty
    \/ LogVerify
    \/ LogWrite

SpecVerify == InitVerify /\ [][NextVerify]_vars

\* ------------------------------------------------------------ properties
RECURSIVE RunEnd(_, _)
\* the number of elements in the first j runs of a content
RunEnd(s, j) == IF j = 0 THEN 0 ELSE s[j].n + RunEnd(s, j - 1)

\* some element at an index >= k is non-zero
NonZeroFrom(s, k) == \E j \in 1..Len(s) : s[j].v # 0 /\ RunEnd(s, j) > k

\* every element is zero
AllZero(s) == \A j \in 1..Len(s) : s[j].v = 0

\* the elements at indices a .. b-1, for 0 <= a
Segment(s, a, b) == Take(Drop(s, a), b - a)

\* the last k elements
LastElems(s, k) == Drop(s, BLen(s) - k)

\* the path the converted file ends up at
FinalPath == IF output = "none" THEN "in" ELSE OutputPath

\* the run converted the file: it ended with status 0 having written FinalPath
Completed ==
    /\ pc = "done" /\ exit_status = "success"
    /\ \E w \in writes : w.path = FinalPath

\* the capacities have been computed
CapacitiesComputed == old_max_ticks # 0 /\ new_max_ticks # 0

\* write_tx_status_data() has been called and has returned or exited
TxWriteActed == tool \in {"tx", "snap"} /\ tickTxCounter # <<>> /\ pc # "write"

\* no file other than the backup has been created or modified
NoOutputWritten ==
    /\ fs["in"] = orig
    /\ ~fs["out"].exists
    /\ ~fs["tmp"].exists

\* C1: for every duration >= 1000 each tool's calculate_max_ticks_per_epoch
\* returns the integer-only reference value (truncating division at every step).
C1_MatchesIntegerReference ==
    CapacitiesComputed =>
        /\ old_duration >= 1000 =>
              old_max_ticks = MAX_NUMBER_OF_TICKS_PER_EPOCH(old_duration)
        /\ new_duration >= 1000 =>
              new_max_ticks = MAX_NUMBER_OF_TICKS_PER_EPOCH(new_duration)

\* C2: when a transaction-status file is shrunk and an element at an index
\* >= the new capacity is non-zero in the counter or the index-start array,
\* the data-loss gate is raised; on a rejection the run ends with a failure
\* status and no output or temp file is created or modified.
C2_TxShrinkRaisesGate ==
    (/\ TxWriteActed
     /\ BLen(tickTxCounter) > NewArraySize
     /\ NonZeroFrom(tickTxCounter, NewArraySize)
           \/ NonZeroFrom(tickTxIndexStart, NewArraySize))
    => /\ gate
       /\ response # "y" =>
             pc = "done" /\ exit_status = "failure" /\ NoOutputWritten

C2_Witness ==
    /\ TxWriteActed
    /\ BLen(tickTxCounter) > NewArraySize
    /\ NonZeroFrom(tickTxIndexStart, NewArraySize)
    /\ gate /\ response = "n" /\ exit_status = "failure"

\* C3: in the event-state pipeline a conversion that shrinks the digest array
\* and discards a non-zero byte completes only if the data-loss gate was
\* raised and the answer authorised it.
C3_NoSilentDigestLoss ==
    (/\ tool = "log" /\ Completed
     /\ new_max_ticks < old_max_ticks
     /\ NonZeroFrom(Segment(orig.content, DigestsStart,
                            DigestsStart + old_max_ticks * DIGEST_SIZE),
                    new_max_ticks * DIGEST_SIZE))
    => gate /\ response = "y"

\* C4: in both pipelines the data-loss gate is never raised when the new
\* capacity is greater than or equal to the old one.
C4_GrowNeverRaisesGate ==
    (CapacitiesComputed /\ new_max_ticks >= old_max_ticks) => ~gate

\* the tick-indexed arrays of a file laid out for cap ticks: the digest array
\* in bytes, the counter and index-start arrays in u32 words
TickArrays(c, cap) ==
    IF tool = "log"
    THEN <<Segment(c, DigestsStart, DigestsStart + cap * DIGEST_SIZE)>>
    ELSE <<Segment(c, 0, cap + TICKS_TO_KEEP_FROM_PRIOR_EPOCH),
           Segment(c, cap + TICKS_TO_KEEP_FROM_PRIOR_EPOCH,
                   2 * (cap + TICKS_TO_KEEP_FROM_PRIOR_EPOCH))>>

\* the number of elements of such an array
ArrayCapacity(cap) ==
    IF tool = "log" THEN cap * DIGEST_SIZE ELSE cap + TICKS_TO_KEEP_FROM_PRIOR_EPOCH

\* C5: every resized tick-indexed array of the output has exactly the new
\* capacity, agrees with the input array below min(old, new) capacity and is
\* zero from the old capacity on.
C5_ResizedArrays ==
    Completed =>
        LET inA  == TickArrays(orig.content, old_max_ticks)
            outA == TickArrays(fs[FinalPath].content, new_max_ticks)
            oldN == ArrayCapacity(old_max_ticks)
            newN == ArrayCapacity(new_max_ticks)
        IN  \A k \in 1..Len(inA) :
               /\ BLen(outA[k]) = newN
               /\ Take(outA[k], Min(oldN, newN)) = Take(inA[k], Min(oldN, newN))
               /\ AllZero(Drop(outA[k], oldN))

C5_Witness ==
    /\ Completed
    /\ new_max_ticks < old_max_ticks
    /\ gate /\ response = "y"
    /\ AnyNonZero(TickArrays(orig.content, old_max_ticks)[1])

\* C6: the output of the event-state pipeline is the input up to the digest
\* array, the resized digest array, and every input byte after the old digest
\* array, whatever the length of the input file.
C6_AllBytesOutsideDigestsKept ==
    (tool = "log" /\ Completed) =>
        /\ Take(fs[FinalPath].content, DigestsStart) = Take(orig.content, DigestsStart)
        /\ Drop(fs[FinalPath].content, DigestsStart + new_max_ticks * DIGEST_SIZE)
             = Drop(orig.content, DigestsStart + old_max_ticks * DIGEST_SIZE)

\* the size of the scalar block at the end of the file, in stored elements
ScalarBlock == IF tool = "log" THEN VARIABLES_SIZE ELSE 2

\* C7: after a completed conversion the scalar fields are the final bytes of
\* the output and equal the scalar fields at the end of the input.
C7_ScalarsPreserved ==
    Completed =>
        LastElems(fs[FinalPath].content, ScalarBlock)
            = LastElems(orig.content, ScalarBlock)

\* C8: with an old or new duration below 1000 ms (and positive) the run ends
\* with an explicit invalid-parameter error and creates or modifies no file.
C8_SubSecondRejected ==
    (/\ pc = "done"
     /\ \/ (0 < old_duration /\ old_duration < 1000)
        \/ (0 < new_duration /\ new_duration < 1000))
    => /\ exit_status = "failure"
       /\ error = "InvalidParameter"
       /\ NoOutputWritten
       /\ ~fs["backup"].exists

\* C9: a failed run leaves the original file unchanged, and no write to the
\* original file's path happens before verification has succeeded.
C9_OriginalUntouchedUntilVerified ==
    /\ exit_status = "failure" => fs["in"] = orig
    /\ \A w \in writes : w.path = "in" => w.verified

\* C10: verify_adjustment returns false whenever the buffer's length differs
\* from the size of the new layout, and then nothing is written.
C10_VerifyRejectsWrongSize ==
    (/\ tool = "log" /\ pc \in {"write", "done"}
     /\ BLen(new_data) # DigestsStart
                          + MAX_NUMBER_OF_TICKS_PER_EPOCH(new_duration) * 32 + 400 + 32)
    => /\ ~verified
       /\ pc = "done" /\ exit_status = "failure" /\ error = "VerificationFailed"
       /\ NoOutputWritten
       /\ \A w \in writes : w.path = "backup"

C10_Witness ==
    /\ tool = "log" /\ pc = "done" /\ error = "VerificationFailed"
    /\ BLen(new_data) # ExpectedNewSize
    /\ NoOutputWritten

\* the size in bytes read_tx_status_data() expects of a file of the capacity
\* the tool computed for the old duration
ExpectedOldTxSize == (old_max_ticks + TICKS_TO_KEEP_FROM_PRIOR_EPOCH) * 4 * 2 + 8

\* C11: a transaction-status input whose size is not exactly
\* (maxTicksPerEpoch(oldDuration) + 100) * 4 * 2 + 8 bytes, for the capacity the
\* tool computes, ends the conversion with a failure status, however small the
\* difference, and no output file or temp file is written.
C11_TxExactSizeRequired ==
    (/\ tool \in {"tx", "snap"}
     /\ CapacitiesComputed
     /\ orig.exists
     /\ 4 * BLen(orig.content) # ExpectedOldTxSize)
    => /\ pc = "done" /\ exit_status = "failure" /\ error = "ValueError"
       /\ NoOutputWritten

\* a file one u32 word longer than expected has been rejected
C11_Witness ==
    /\ tool \in {"tx", "snap"}
    /\ CapacitiesComputed
    /\ orig.exists
    /\ 4 * BLen(orig.content) = ExpectedOldTxSize + 4
    /\ pc = "done" /\ exit_status = "failure" /\ error = "ValueError"
    /\ NoOutputWritten

\* the ticks that fit in one week at a tick duration of ms >= 1000, by integer
\* division
TicksPerWeek(ms) == SECONDS_PER_WEEK \div (ms \div 1000)

\* the capacity c is the ticks of one week rounded up to the computor count
RoundsUpTicksPerWeek(c, ms) ==
    /\ c % NUMBER_OF_COMPUTORS = 0
    /\ c >= TicksPerWeek(ms)
    /\ c - TicksPerWeek(ms) < NUMBER_OF_COMPUTORS

\* C12: for every tick duration >= 1000 ms the capacity a tool computes is a
\* multiple of the 676 computors, is at least ticksPerWeek = 604800 div
\* (ms div 1000) and exceeds it by less than 676.
C12_CapacityRoundsUpTicksPerWeek ==
    CapacitiesComputed =>
        /\ old_duration >= 1000 => RoundsUpTicksPerWeek(old_max_ticks, old_duration)
        /\ new_duration >= 1000 => RoundsUpTicksPerWeek(new_max_ticks, new_duration)

\* --------------------------------------------------------- the round trip
\* the tool is run a second time, with the same options and the two durations
\* exchanged, on the file the completed first run produced (moved to the input
\* path; the files the first run left behind are cleared away)
Restart ==
    /\ Completed
    /\ earlier = <<>>
    /\ earlier' = <<[input |-> orig, gate |-> gate]>>
    /\ old_duration' = new_duration
    /\ new_duration' = old_duration
    /\ fs' = [p \in Paths |-> IF p = "in" THEN fs[FinalPath] ELSE NoFile]
    /\ orig' = fs[FinalPath]
    /\ pc' = "start"
    /\ old_max_ticks' = 0
    /\ new_max_ticks' = 0
    /\ data' = <<>>
    /\ new_data' = <<>>
    /\ tickTxCounter' = <<>>
    /\ tickTxIndexStart' = <<>>
    /\ prevEpochBegin' = 0
    /\ currEpochBegin' = 0
    /\ gate' = FALSE
    /\ response' = ""
    /\ verified' = FALSE
    /\ exit_status' = "running"
    /\ error' = "none"
    /\ writes' = {}
    /\ UNCHANGED <<tool, output, no_backup>>

NextRoundTrip ==
    \/ Next
    \/ Restart

SpecRoundTrip == Init /\ [][NextRoundTrip]_vars

\* the array b holds every non-zero element of the array a at the same index
KeepsNonZero(a, b) ==
    \A j \in 1..Len(a) :
        a[j].v # 0 =>
            Segment(b, RunEnd(a, j - 1), RunEnd(a, j)) = <<a[j]>>

\* C13: a conversion from duration A to B followed by a conversion of the
\* result from B back to A, neither of which raised the data-loss gate, yields
\* a file of the original size with the original scalar fields in which every
\* originally non-zero tick-indexed entry is at the same index with the same
\* value, in the transaction-status and in the event-state pipeline.
C13_RoundTripRestores ==
    (Len(earlier) = 1 /\ Completed /\ ~gate /\ ~earlier[1].gate) =>
        LET first == earlier[1].input.content
            last  == fs[FinalPath].content
            inA   == TickArrays(first, new_max_ticks)
            outA  == TickArrays(last, new_max_ticks)
        IN  /\ BLen(last) = BLen(first)
            /\ LastElems(last, ScalarBlock) = LastElems(first, ScalarBlock)
            /\ \A k \in 1..Len(inA) : KeepsNonZero(inA[k], outA[k])

\* C14: with different old and new durations of which one is <= 0, each of
\* the three tools ends with a failure status before it creates a backup,
\* reads the input or writes any file.
C14_NonPositiveRejectedFirst ==
    (/\ old_duration # new_duration
     /\ old_duration <= 0 \/ new_duration <= 0
     /\ pc # "start")
    => /\ pc = "done" /\ exit_status = "failure"
       /\ data = <<>> /\ tickTxCounter = <<>>
       /\ writes = {}
       /\ fs = [p \in Paths |-> IF p = "in" THEN orig ELSE NoFile]

\* C15: with equal old and new durations each of the three tools stops at once
\* without an error status, creates no backup, temp or output file and leaves
\* the input file as it was.
C15_EqualDurationsNoAction ==
    (old_duration = new_duration /\ pc # "start")
    => /\ pc = "done" /\ exit_status = "success"
       /\ writes = {}
       /\ fs = [p \in Paths |-> IF p = "in" THEN orig ELSE NoFile]

\* C16: in every pipeline the output file, at the explicit output path or at
\* the temp path, is written only after the verification of the assembled
\* content has succeeded; after a verification mismatch no output file exists
\* at that path.
C16_OutputWrittenAfterVerification ==
    /\ \A w \in writes : w.path # "backup" => w.verified
    /\ (pc = "done" /\ error = "VerificationFailed") =>
           \A p \in {"out", "tmp"} : ~fs[p].exists

\* the total length of a file laid out for cap ticks, in stored elements
\* (bytes of an event-state file, u32 words of a transaction-status file)
LayoutTotal(cap) ==
    IF tool = "log"
    THEN DigestsStart + cap * DIGEST_SIZE + K12_STATE_SIZE + VARIABLES_SIZE
    ELSE (cap + TICKS_TO_KEEP_FROM_PRIOR_EPOCH) * 2 + 2

\* the run got an input of exactly the old layout and two valid durations
ExactInputValidDurations ==
    /\ old_duration >= 1000 /\ new_duration >= 1000
    /\ old_duration # new_duration
    /\ CapacitiesComputed
    /\ orig.exists
    /\ BLen(orig.content) = LayoutTotal(old_max_ticks)

\* C17: for an input of exactly the old-layout length and two valid durations
\* the assembled output has the length computed from the new layout
\* (event-state: fixed segments + newMaxTicks * 32 + 400 + 32; transaction
\* status: (newMaxTicks + 100) * 8 + 8 bytes), so verification succeeds and the
\* run completes unless the data-loss decision rejects it.
C17_ExactInputCompletes ==
    ExactInputValidDurations =>
        /\ new_data # <<>> => BLen(new_data) = LayoutTotal(new_max_ticks)
        /\ pc = "done" =>
              \/ /\ gate /\ response # "y"
                 /\ exit_status = "failure" /\ error = "Aborted"
              \/ /\ Completed /\ verified
                 /\ BLen(fs[FinalPath].content) = LayoutTotal(new_max_ticks)

\* a shrinking event-state conversion of an exact input has been verified
\* and written
C17_Witness ==
    /\ ExactInputValidDurations
    /\ tool = "log"
    /\ new_max_ticks < old_max_ticks
    /\ Completed /\ verified
    /\ BLen(new_data) = LayoutTotal(new_max_ticks)
    /\ BLen(fs[FinalPath].content) = LayoutTotal(new_max_ticks)

\* the run works in place and was not told to skip the backup
BackupDue == tool \in {"log", "tx"} /\ output = "none" /\ ~no_backup

\* C18: in in-place mode with the backup not skipped, adjust_log_state and
\* adjust_tx_status have a copy equal to the original file at <path>.backup
\* before the first write to the original path, and the run never changes the
\* backup afterwards; with an explicit output path or with the backup skipped
\* no backup file is created.
C18_BackupBeforeOverwrite ==
    /\ (BackupDue /\ \E w \in writes : w.path = "in")
           => fs["backup"].exists /\ fs["backup"] = orig
    /\ fs["backup"].exists => BackupDue /\ fs["backup"] = orig
    /\ ~BackupDue => \A w \in writes : w.path # "backup"

\* an in-place run has overwritten the original with different content while
\* the backup holds the original
C18_Witness ==
    /\ BackupDue
    /\ \E w \in writes : w.path = "in"
    /\ fs["in"] # orig
    /\ fs["backup"] = orig
    /\ pc = "done" /\ exit_status = "success"

====
